---- MODULE Spec2Model ----
(***************************************************************************)
(* Session state machine of the FAISS variant of the cGMP chatbot          *)
(* (src/main.py).  One action is one Streamlit script run: the prologue    *)
(* that (re)creates st.session_state["database"], then the handler of the  *)
(* widget that triggered the run (upload batch, question, database reset,  *)
(* conversation reset).                                                     *)
(*                                                                         *)
(* External collaborators (PDF parsers, embedding provider, FAISS search,  *)
(* the language model) are modelled by the outcomes the code distinguishes:*)
(* they succeed or raise, and a search returns some stored chunks.         *)
(***************************************************************************)
EXTENDS Integers, Sequences, FiniteSets, TLC

\* ------------------------------------------------------------------ bounds
MaxBatch == 2        \* files in one uploaded batch
MaxTurns == 1        \* question/answer turns kept in the conversation

\* ------------------------------------------------------- program constants
RetrieverK == 5      \* search_kwargs={"k": 5}

\* ------------------------------------------------------------------ inputs
FileNames == {"a.pdf", "b.pdf"}

\* Content hashes of the uploaded bytes (get_file_hash).  The bytes decide
\* the pages of the PDF, how many chunks each page is split into, and which
\* extractor can read them:
\*   1: one page, long enough for two overlapping chunks; both extractors work
\*   2: two pages, one chunk each; extract_pdf_content_advanced raises on it,
\*      PyPDFLoader reads it
\*   3: bytes that no extractor can read (both raise)
FileHashes == {1, 2, 3}

\* PageChunks(h)[p] = number of chunks the splitter cuts page p into.
PageChunks(h) ==
    CASE h = 1 -> <<2>>
      [] h = 2 -> <<1, 1>>
      [] OTHER -> <<>>

AdvancedRaises(h) == h # 1
LoaderRaises(h) == h \notin {1, 2}

\* What the embedding provider does while one file is processed.
\*   none     every call succeeds
\*   embed    FAISS.from_documents raises (embedding / index error)
Faults == {"none", "embed"}

UploadedFile == [name : FileNames, hash : FileHashes, fault : Faults]

VARIABLES
    database,          \* st.session_state["database"]
    vectorstore_data,  \* st.session_state["vectorstore_data"]
    processed_files,   \* st.session_state["processed_files"]
    messages,          \* st.session_state["messages"]
    embeddings,        \* cache of initialize_embeddings (@st.cache_resource)
    run,               \* what the last script run did
    uploaded_files,    \* the batch of the last run (file uploader)
    results,           \* status lines of the last run's batch
    docs,              \* chunks retrieved in the last run
    ai_response,       \* answer of the last run
    llm_invoked        \* whether the last run called llm.invoke

vars == <<database, vectorstore_data, processed_files, messages, embeddings,
          run, uploaded_files, results, docs, ai_response, llm_invoked>>

\* ------------------------------------------------------------ value shapes
\* A session_state key is absent, holds None, or holds a FAISS store whose
\* documents are listed in index order (index_to_docstore_id).
Absent == [kind |-> "absent", docs |-> <<>>]
None == [kind |-> "none", docs |-> <<>>]
Faiss(d) == [kind |-> "faiss", docs |-> d]

NoResponse == [answer |-> "", sources |-> <<>>]

\* page value of a citation without a page
NoPage == -1

\* The session-scoped state the handlers read and write, as one record.
Session ==
    [database |-> database, vectorstore_data |-> vectorstore_data,
     processed_files |-> processed_files, messages |-> messages,
     embeddings |-> embeddings]

\* ------------------------------------------------- embeddings and snapshot
\* initialize_embeddings: @st.cache_resource returns the cached value; on a
\* cache miss the constructor runs (ctor = "ok") or raises and None is
\* returned and cached (ctor = "raise").  The value is "ok" or "none".
InitializeEmbeddings(cache, ctor) ==
    IF cache # "empty" THEN cache
    ELSE IF ctor = "ok" THEN "ok" ELSE "none"

\* save_vectorstore_to_session: serialises docstore and index into
\* vectorstore_data; any exception is caught and nothing is stored.
SaveVectorstoreToSession(s, ok) ==
    IF ok
    THEN [s EXCEPT !.vectorstore_data = [kind |-> "data", docs |-> s.database.docs]]
    ELSE s

\* load_vectorstore_from_session: None without a snapshot.  With one, the
\* docstore loop subscripts each pickled Document (doc_data['page_content']),
\* which raises TypeError for the first document; the except branch returns
\* None.  Only a snapshot without documents is rebuilt.
LoadVectorstoreFromSession(data) ==
    IF data.kind = "absent" THEN None
    ELSE IF data.docs = <<>> THEN Faiss(<<>>)
    ELSE None

\* initialize_database
InitializeDatabase(s, ctor) ==
    LET e == InitializeEmbeddings(s.embeddings, ctor)
        v == LoadVectorstoreFromSession(s.vectorstore_data)
    IN  [s EXCEPT !.embeddings = e,
                  !.database = IF e = "none" THEN None
                               ELSE IF v.kind = "faiss" THEN v
                               ELSE None]

\* Top of every script run: if "database" not in st.session_state.
Prologue(s, ctor) ==
    IF s.database.kind = "absent" THEN InitializeDatabase(s, ctor) ELSE s

\* ------------------------------------------------------------- extraction
\* extract_pdf_content_advanced: one Document per page, "page": page_num + 1.
ExtractPdfContentAdvanced(h) ==
    [p \in 1..Len(PageChunks(h)) |-> [page |-> p, nchunks |-> PageChunks(h)[p]]]

\* PyPDFLoader(tmp_file_path).load(): one Document per page, "page" is the
\* 0-based page index.
PyPDFLoaderLoad(h) ==
    [p \in 1..Len(PageChunks(h)) |-> [page |-> p - 1, nchunks |-> PageChunks(h)[p]]]

RECURSIVE Repeat(_, _)
Repeat(x, n) == IF n = 0 THEN <<>> ELSE <<x>> \o Repeat(x, n - 1)

\* text_splitter.split_documents: the chunks of each page in document order,
\* each carrying the metadata of its page.
RECURSIVE SplitDocuments(_)
SplitDocuments(documents) ==
    IF documents = <<>> THEN <<>>
    ELSE Repeat([page |-> Head(documents).page], Head(documents).nchunks)
         \o SplitDocuments(Tail(documents))

\* The metadata loop over the splits (page defaults to 1 when missing; both
\* extractors always set it).
SplitMetadata(splits, f, extraction_method) ==
    [i \in 1..Len(splits) |->
        [source |-> f.name, file_hash |-> f.hash, page |-> splits[i].page,
         chunk_id |-> i, extraction_method |-> extraction_method]]

\* ---------------------------------------------------------- deduplication
\* Mutant: the lookup never matches (e.g. the hash is looked up among the
\* names), so nothing is recognised as processed.
IsFileAlreadyProcessedNever(s, filename, file_hash) ==
    FALSE

\* Mutant: the metadata-capable check, name and hash against the indexed
\* chunks.
IsFileAlreadyProcessedByHash(s, filename, file_hash) ==
    /\ filename \in s.processed_files
    /\ \E i \in 1..Len(s.database.docs) :
           /\ s.database.docs[i].source = filename
           /\ s.database.docs[i].file_hash = file_hash

\* is_file_already_processed: the file hash is ignored.
IsFileAlreadyProcessed(s, filename, file_hash) ==
    filename \in s.processed_files

\* ------------------------------------------------------------------ index
\* Mutant: every add builds a fresh store from the new chunks.
UpdateDatabaseReplace(db, splits) ==
    Faiss(splits)

\* The create-or-merge step: FAISS.from_documents on the first add,
\* merge_from (append to the existing index) afterwards.
UpdateDatabase(db, splits) ==
    IF db.kind = "none" THEN Faiss(splits)
    ELSE Faiss(db.docs \o splits)

Status(glyph, f, detail, chunks, method) ==
    [glyph |-> glyph, name |-> f.name, detail |-> detail,
     chunks |-> chunks, method |-> method]

\* The body of process_pdf_file's outer try.  glyph "raise" stands for an
\* exception leaving the body; the session is as the body left it.
\* The snapshot write is taken to succeed: a failed write only leaves an
\* older snapshot, which nothing reads before the next reset deletes it.
ProcessPdfFileBody(s, f, ctor) ==
    LET e  == InitializeEmbeddings(s.embeddings, ctor)
        s1 == [s EXCEPT !.embeddings = e]
        method == IF AdvancedRaises(f.hash) THEN "basic" ELSE "advanced"
        documents == IF method = "basic" THEN PyPDFLoaderLoad(f.hash)
                     ELSE ExtractPdfContentAdvanced(f.hash)
        splits == SplitMetadata(SplitDocuments(documents), f, method)
        s2 == [s1 EXCEPT !.database = UpdateDatabase(s1.database, splits)]
        s3 == SaveVectorstoreToSession(s2, TRUE)
        s4 == [s3 EXCEPT !.processed_files = @ \cup {f.name}]
    IN  IF e = "none"
        THEN [session |-> s1, result |-> Status("error", f, "embedding_init", 0, "")]
        ELSE IF IsFileAlreadyProcessed(s1, f.name, f.hash)
        THEN [session |-> s1, result |-> Status("warning", f, "already_processed", 0, "")]
        ELSE IF AdvancedRaises(f.hash) /\ LoaderRaises(f.hash)
        THEN [session |-> s1, result |-> Status("raise", f, "exception", 0, "")]
        ELSE IF documents = <<>>
        THEN [session |-> s1, result |-> Status("error", f, "no_text", 0, "")]
        ELSE IF f.fault = "embed" \/ splits = <<>> \/ s1.database.kind = "absent"
        THEN [session |-> s1, result |-> Status("raise", f, "exception", 0, "")]
        ELSE [session |-> s4, result |-> Status("success", f, "done", Len(splits), method)]

\* Mutant: no outer except, exceptions leave process_pdf_file.
ProcessPdfFileNoExcept(s, f, ctor) ==
    ProcessPdfFileBody(s, f, ctor)

\* process_pdf_file: the outer except turns every exception into an error
\* status line for this file.
ProcessPdfFile(s, f, ctor) ==
    LET r == ProcessPdfFileBody(s, f, ctor)
    IN  IF r.result.glyph = "raise"
        THEN [session |-> r.session, result |-> Status("error", f, "exception", 0, "")]
        ELSE r

\* The file processing loop: one call per file, in upload order; an
\* exception leaving process_pdf_file would end the script run before any
\* status line is shown.
RECURSIVE ProcessFiles(_, _, _, _)
ProcessFiles(s, files, ctor, acc) ==
    IF files = <<>> THEN [session |-> s, results |-> acc, crashed |-> FALSE]
    ELSE LET r == ProcessPdfFile(s, Head(files), ctor)
         IN  IF r.result.glyph = "raise"
             THEN [session |-> r.session, results |-> <<>>, crashed |-> TRUE]
             ELSE ProcessFiles(r.session, Tail(files), ctor, Append(acc, r.result))

\* ------------------------------------------------------------- answering
\* Python truthiness of the page value and str(page_num).isdigit(), for the
\* integer pages the ingestion stores: 0 is falsy, a minus sign is no digit.
Truthy(page_num) == page_num # 0
IsDigit(page_num) == page_num >= 0

\* "<source> (페이지 <page>)" is [name, page]; "<source>" is [name, NoPage].
FormatCitation(metadata) ==
    IF Truthy(metadata.page) /\ IsDigit(metadata.page)
    THEN [name |-> metadata.source, page |-> metadata.page]
    ELSE [name |-> metadata.source, page |-> NoPage]

InSeq(x, sq) == \E i \in 1..Len(sq) : sq[i] = x

\* Mutant: every citation is appended, listed or not.
RECURSIVE CollectSourcesNoDedup(_, _)
CollectSourcesNoDedup(ds, sources) ==
    IF ds = <<>> THEN sources
    ELSE CollectSourcesNoDedup(Tail(ds), Append(sources, FormatCitation(Head(ds))))

\* The source loop of get_ai_message: append unless already listed.
RECURSIVE CollectSources(_, _)
CollectSources(ds, sources) ==
    IF ds = <<>> THEN sources
    ELSE LET source_info == FormatCitation(Head(ds))
         IN  CollectSources(Tail(ds),
                 IF InSeq(source_info, sources) THEN sources
                 ELSE Append(sources, source_info))

Min(a, b) == IF a < b THEN a ELSE b

IsInjective(sq) == \A i, j \in 1..Len(sq) : sq[i] = sq[j] => i = j

\* What retriever.get_relevant_documents can return for a store: at most k
\* stored chunks, each at most once, most relevant first.  Which chunks, and
\* how many, is decided by the embedding space.
Retrievable(db) ==
    LET n == Len(db.docs)
        picks == UNION {[1..m -> 1..n] : m \in 0..Min(RetrieverK, n)}
    IN  {[i \in 1..Len(ix) |-> db.docs[ix[i]]] : ix \in {q \in picks : IsInjective(q)}}

Answer(answer, sources, ds, invoked, raised) ==
    [answer |-> answer, sources |-> sources, docs |-> ds,
     llm_invoked |-> invoked, raised |-> raised]

\* Mutant: no early return for an empty retrieval.
GetAiMessageNoEmptyCheck(s, search, found, llm) ==
    IF s.database.kind # "faiss"
    THEN Answer("no_database", <<>>, <<>>, FALSE, FALSE)
    ELSE IF search = "raise"
    THEN Answer("retrieval_error", <<>>, <<>>, FALSE, FALSE)
    ELSE IF llm = "raise"
    THEN Answer("", <<>>, found, TRUE, TRUE)
    ELSE Answer("llm_response", CollectSources(found, <<>>), found, TRUE, FALSE)

\* Mutant: no database check; as_retriever on None raises inside the try.
GetAiMessageNoDatabaseCheck(s, search, found, llm) ==
    IF s.database.kind # "faiss" \/ search = "raise"
    THEN Answer("retrieval_error", <<>>, <<>>, FALSE, FALSE)
    ELSE IF found = <<>>
    THEN Answer("no_information", <<>>, <<>>, FALSE, FALSE)
    ELSE IF llm = "raise"
    THEN Answer("", <<>>, found, TRUE, TRUE)
    ELSE Answer("llm_response", CollectSources(found, <<>>), found, TRUE, FALSE)

\* get_ai_message.  search is "raise" or "ok", found the retrieved chunks,
\* llm the outcome of llm.invoke if it is reached.
GetAiMessage(s, search, found, llm) ==
    IF s.database.kind # "faiss"
    THEN Answer("no_database", <<>>, <<>>, FALSE, FALSE)
    ELSE IF search = "raise"
    THEN Answer("retrieval_error", <<>>, <<>>, FALSE, FALSE)
    ELSE IF found = <<>>
    THEN Answer("no_information", <<>>, <<>>, FALSE, FALSE)
    ELSE IF llm = "raise"
    THEN Answer("", <<>>, found, TRUE, TRUE)
    ELSE Answer("llm_response", CollectSources(found, <<>>), found, TRUE, FALSE)

\* ------------------------------------------------------------------ reset
\* Mutant: the processed-file list is not reset.
ResetDatabaseKeepFiles(s, clear) ==
    LET s1 == [s EXCEPT !.database = Absent]
        s2 == [s1 EXCEPT !.vectorstore_data = Absent]
    IN  IF clear = "raise" THEN s2
        ELSE [s2 EXCEPT !.embeddings = "empty",
                        !.messages = <<>>,
                        !.database = None]

\* The database reset button handler.  initialize_embeddings.clear() is the
\* call that can raise; the except branch only reports the error.
ResetDatabase(s, clear) ==
    LET s1 == [s EXCEPT !.database = Absent]
        s2 == [s1 EXCEPT !.vectorstore_data = Absent]
    IN  IF clear = "raise" THEN s2
        ELSE [s2 EXCEPT !.embeddings = "empty",
                        !.processed_files = {},
                        !.messages = <<>>,
                        !.database = None]

\* ---------------------------------------------------------------- actions
Store(s) ==
    /\ database' = s.database
    /\ vectorstore_data' = s.vectorstore_data
    /\ processed_files' = s.processed_files
    /\ messages' = s.messages
    /\ embeddings' = s.embeddings

NoUpload == uploaded_files' = <<>> /\ results' = <<>>
NoAnswer == docs' = <<>> /\ ai_response' = NoResponse /\ llm_invoked' = FALSE

\* Outcomes of the OpenAIEmbeddings constructor; it only runs on a cache miss.
Ctors == {"ok", "raise"}
CtorOutcomes == IF embeddings = "empty" THEN Ctors ELSE {"ok"}

\* State after the first script run of a session.
Init ==
    /\ \E ctor \in Ctors :
         LET s == InitializeDatabase(
                    [database |-> Absent, vectorstore_data |-> Absent,
                     processed_files |-> {}, messages |-> <<>>,
                     embeddings |-> "empty"], ctor)
         IN  /\ database = s.database
             /\ vectorstore_data = s.vectorstore_data
             /\ processed_files = s.processed_files
             /\ messages = s.messages
             /\ embeddings = s.embeddings
    /\ run = "start"
    /\ uploaded_files = <<>>
    /\ results = <<>>
    /\ docs = <<>>
    /\ ai_response = NoResponse
    /\ llm_invoked = FALSE

Batches == UNION {[1..n -> UploadedFile] : n \in 1..MaxBatch}

\* "문서 처리하기": the file processing loop over the uploaded batch.
Upload ==
    \E files \in Batches, ctor \in CtorOutcomes :
        LET r == ProcessFiles(Prologue(Session, ctor), files, ctor, <<>>)
        IN  /\ Store(r.session)
            /\ uploaded_files' = files
            /\ results' = r.results
            /\ run' = IF r.crashed THEN "crash" ELSE "upload"
            /\ NoAnswer

\* What the retrieval and the model can do for a question on store db:
\* the search raises, or returns chunks; llm.invoke answers or raises.
AskOutcomes(db) ==
    {[search |-> "raise", found |-> <<>>, llm |-> "ok"]}
    \cup {[search |-> "ok", found |-> fd, llm |-> l] :
             fd \in Retrievable(db), l \in {"ok", "raise"}}

\* A question typed into the chat input.  The conversation keeps the
\* question and the answer; what is kept of each is its role and, for the
\* answer, which of the answers it is.
Ask ==
    /\ Len(messages) + 2 <= 2 * MaxTurns
    /\ \E ctor \in CtorOutcomes :
        LET s == Prologue(Session, ctor)
        IN  \E o \in AskOutcomes(s.database) :
              LET a == GetAiMessage(s, o.search, o.found, o.llm)
              IN  /\ docs' = a.docs
                  /\ llm_invoked' = a.llm_invoked
                  /\ IF a.raised
                     THEN /\ Store(s)
                          /\ ai_response' = NoResponse
                          /\ run' = "question_error"
                     ELSE /\ Store([s EXCEPT !.messages =
                                @ \o << [role |-> "user", content |-> "question"],
                                        [role |-> "ai", content |-> a.answer] >>])
                          /\ ai_response' = [answer |-> a.answer, sources |-> a.sources]
                          /\ run' = "question"
                  /\ NoUpload

\* "전체 데이터베이스 초기화"
Reset ==
    \E ctor \in CtorOutcomes, clear \in {"ok", "raise"} :
        /\ Store(ResetDatabase(Prologue(Session, ctor), clear))
        /\ run' = IF clear = "raise" THEN "reset_error" ELSE "reset"
        /\ NoUpload
        /\ NoAnswer

\* "대화 초기화"
ClearChat ==
    \E ctor \in CtorOutcomes :
        /\ Store([Prologue(Session, ctor) EXCEPT !.messages = <<>>])
        /\ run' = "clear"
        /\ NoUpload
        /\ NoAnswer

\* Any other interaction (e.g. "DB 상태 확인"): the script reruns and only
\* the prologue touches the session.
Rerun ==
    \E ctor \in CtorOutcomes :
        /\ Store(Prologue(Session, ctor))
        /\ run' = "rerun"
        /\ NoUpload
        /\ NoAnswer

Next == Upload \/ Ask \/ Reset \/ ClearChat \/ Rerun

Spec == Init /\ [][Next]_vars

\* ================================================================= claims
IndexedDocs == database.docs
DocIndex == 1..Len(IndexedDocs)

\* The sets of chunks in the index: each ingestion numbers its chunks from 1.
ChunkSets == {i \in DocIndex : IndexedDocs[i].chunk_id = 1}

IsPrefix(a, b) == Len(a) <= Len(b) /\ \A i \in 1..Len(a) : a[i] = b[i]

\* ---- C1
\* C1 as stated: whatever is uploaded, the index holds at most one set of
\* chunks per content (file hash): a second ingestion of the same bytes adds
\* nothing.
C1_OneChunkSetPerContent ==
    \A h \in FileHashes :
        Cardinality({i \in ChunkSets : IndexedDocs[i].file_hash = h}) <= 1

\* C1 amended: deduplication is by filename.  The index holds at most one
\* set of chunks per filename, and ingesting an indexed file again (same
\* name, identical bytes), whatever the provider does, is skipped and adds
\* no chunks.
C1_OneChunkSetPerFileName ==
    /\ \A n \in FileNames :
           Cardinality({i \in ChunkSets : IndexedDocs[i].source = n}) <= 1
    /\ \A i \in ChunkSets, fault \in Faults, ctor \in CtorOutcomes :
           LET s == Prologue(Session, ctor)
               f == [name |-> IndexedDocs[i].source,
                     hash |-> IndexedDocs[i].file_hash, fault |-> fault]
               r == ProcessPdfFile(s, f, ctor)
           IN  /\ r.result.glyph = "warning"
               /\ r.session.database = s.database

\* A batch re-uploaded a file that is indexed with the same name and bytes,
\* and it was skipped.
C1_Witness ==
    /\ run = "upload"
    /\ \E i \in 1..Len(results), j \in DocIndex :
           /\ results[i].glyph = "warning"
           /\ IndexedDocs[j].source = uploaded_files[i].name
           /\ IndexedDocs[j].file_hash = uploaded_files[i].hash

\* ---- C2
\* C2: llm.invoke is reached only with at least one retrieved chunk from an
\* existing store; the three early answers are given without a model call.
C2_ModelCallNeedsContext ==
    /\ llm_invoked => (Len(docs) >= 1 /\ database.kind = "faiss")
    /\ ai_response.answer \in {"no_database", "retrieval_error", "no_information"}
           => ~llm_invoked

C2_Witness ==
    /\ run = "question"
    /\ llm_invoked
    /\ Len(docs) >= 2
    /\ ai_response.answer = "llm_response"

\* ---- C3
\* C3 as stated: a question against an empty or uninitialised index gets no
\* chunks, no sources, the fixed no-information answer and no model call.
C3_EmptyIndexNoInformation ==
    (run = "question" /\ (database.kind # "faiss" \/ database.docs = <<>>))
        => /\ docs = <<>>
           /\ ai_response.sources = <<>>
           /\ ai_response.answer = "no_information"
           /\ ~llm_invoked

\* C3 amended: the fixed answer in that case is the database-not-initialised
\* one; the rest is as stated.
C3_EmptyIndexNoDatabase ==
    (run = "question" /\ (database.kind # "faiss" \/ database.docs = <<>>))
        => /\ docs = <<>>
           /\ ai_response.sources = <<>>
           /\ ai_response.answer = "no_database"
           /\ ~llm_invoked

\* A question was asked in a session whose files were reset or never indexed.
C3_Witness ==
    /\ run = "question"
    /\ database.kind = "none"
    /\ ai_response.answer = "no_database"
    /\ Len(messages) = 2

\* ---- C4
Citations == [i \in 1..Len(docs) |-> FormatCitation(docs[i])]
FirstAt(c, cs) == CHOOSE i \in 1..Len(cs) : cs[i] = c /\ \A j \in 1..(i - 1) : cs[j] # c

\* C4: the citation list of an answer has no two equal entries, lists exactly
\* the citations of the retrieved chunks, and orders them by first
\* occurrence in the retrieval order.
C4_CitationsUniqueInFirstOrder ==
    ai_response.answer = "llm_response" =>
        LET src == ai_response.sources
        IN  /\ \A a, b \in 1..Len(src) : src[a] = src[b] => a = b
            /\ \A a \in 1..Len(src) : InSeq(src[a], Citations)
            /\ \A i \in 1..Len(docs) : InSeq(Citations[i], src)
            /\ \A a, b \in 1..Len(src) :
                   a < b => FirstAt(src[a], Citations) < FirstAt(src[b], Citations)

\* Two retrieved chunks share a citation, and a different citation follows.
C4_Witness ==
    /\ ai_response.answer = "llm_response"
    /\ Len(docs) >= 3
    /\ Len(ai_response.sources) >= 2
    /\ Len(ai_response.sources) < Len(docs)

\* ---- C5
\* C5: every indexed chunk carries a numeric page, so its citation names the
\* file and that page.
C5_NumericPageIsCited ==
    \A i \in DocIndex :
        FormatCitation(IndexedDocs[i])
            = [name |-> IndexedDocs[i].source, page |-> IndexedDocs[i].page]

\* ---- C6
\* Number of chunks the status lines of a batch report as indexed.
RECURSIVE ChunksReported(_)
ChunksReported(rs) ==
    IF rs = <<>> THEN 0 ELSE Head(rs).chunks + ChunksReported(Tail(rs))

\* C6: outside a reset every indexed chunk stays indexed, in place; a batch
\* appends exactly the chunks of its successful files, creating the store
\* when there was none.
C6_IndexOnlyGrows ==
    [][ /\ run' \notin {"reset", "reset_error"}
            => IsPrefix(database.docs, database'.docs)
        /\ run' = "upload"
            => /\ Len(database'.docs)
                    = Len(database.docs) + ChunksReported(results')
               /\ (\E i \in 1..Len(results') : results'[i].glyph = "success")
                    => database'.kind = "faiss"
      ]_vars

\* The index holds the chunks of two files: the second was merged in.
C6_Witness ==
    /\ run = "upload"
    /\ \E i, j \in DocIndex :
           i < j /\ IndexedDocs[i].source # IndexedDocs[j].source

\* ---- C7
\* C7: after a reset that ran to its end the index handle is None, there is
\* no snapshot and no processed file; and from every reachable state a
\* second reset leaves the state the first one left.
C7_ResetDiscardsAndIsIdempotent ==
    /\ run = "reset"
           => /\ database = None
              /\ vectorstore_data = Absent
              /\ processed_files = {}
    /\ \A c1 \in CtorOutcomes, c2 \in Ctors :
           LET once == ResetDatabase(Prologue(Session, c1), "ok")
               twice == ResetDatabase(Prologue(once, c2), "ok")
           IN  /\ once.database = None
               /\ once.vectorstore_data = Absent
               /\ once.processed_files = {}
               /\ twice = once

C7_Witness ==
    /\ run = "reset"
    /\ database = None
    /\ vectorstore_data = Absent
    /\ processed_files = {}
    /\ embeddings = "empty"

\* ---- C8
\* C8: a reset that raised partway still leaves no index reference, no
\* snapshot and no processed-file entry.
C8_FailedResetLeavesNothing ==
    run = "reset_error"
        => /\ database.kind # "faiss"
           /\ vectorstore_data = Absent
           /\ processed_files = {}

\* ---- C9
Unreadable(h) == AdvancedRaises(h) /\ LoaderRaises(h)

\* C9: a batch never ends in an exception; it reports one status line per
\* file, in upload order, and each line is what that file alone calls for:
\* a skip for a name already processed (before the batch or earlier in it),
\* an error for a file that fails, a success for every other file.
C9_OneStatusLinePerFile ==
    [][ /\ run' # "crash"
        /\ run' = "upload" =>
            /\ Len(results') = Len(uploaded_files')
            /\ \A i \in 1..Len(uploaded_files') :
                 LET f == uploaded_files'[i]
                     seen == \/ f.name \in processed_files
                             \/ \E j \in 1..(i - 1) :
                                  /\ uploaded_files'[j].name = f.name
                                  /\ results'[j].glyph = "success"
                 IN  /\ results'[i].name = f.name
                     /\ results'[i].glyph =
                          IF embeddings' = "none" THEN "error"
                          ELSE IF seen THEN "warning"
                          ELSE IF Unreadable(f.hash) \/ f.fault = "embed" THEN "error"
                          ELSE "success"
      ]_vars

\* The first file of a batch failed and the second was indexed.
C9_Witness ==
    /\ run = "upload"
    /\ Len(results) = 2
    /\ results[1].glyph = "error"
    /\ results[2].glyph = "success"
    /\ \E j \in DocIndex : IndexedDocs[j].source = results[2].name

\* ---- C10
\* C10: a file whose name is in the processed-file set is skipped whatever
\* its bytes are, and the skip changes neither the index, nor the snapshot,
\* nor the processed-file set.
C10_SkipByFileNameOnly ==
    \A f \in UploadedFile, ctor \in CtorOutcomes :
        f.name \in processed_files =>
            LET s == Prologue(Session, ctor)
                r == ProcessPdfFile(s, f, ctor)
            IN  /\ r.result.glyph = "warning"
                /\ r.result.detail = "already_processed"
                /\ r.session.database = s.database
                /\ r.session.vectorstore_data = s.vectorstore_data
                /\ r.session.processed_files = s.processed_files

\* A changed file (same name, other bytes than the indexed ones) was skipped.
C10_Witness ==
    /\ run = "upload"
    /\ \E i \in 1..Len(results), j \in DocIndex :
           /\ results[i].glyph = "warning"
           /\ IndexedDocs[j].source = uploaded_files[i].name
           /\ IndexedDocs[j].file_hash # uploaded_files[i].hash

\* ---- C11
\* C11: whenever a snapshot has been written, loading it gives back a store
\* (not None) with the documents, in index order, of the store that was
\* saved.
C11_SnapshotRoundTrip ==
    vectorstore_data.kind = "data" =>
        LET restored == LoadVectorstoreFromSession(vectorstore_data)
        IN  /\ restored.kind = "faiss"
            /\ restored.docs = database.docs

\* ---- C12
\* C12: every filename in the processed-file set is the source of at least
\* one chunk the index holds.
C12_ProcessedFilesAreIndexed ==
    \A n \in processed_files :
        \E i \in DocIndex : IndexedDocs[i].source = n

====
